---------------------------- MODULE Spec2Model ----------------------------
(***************************************************************************)
(* pq2json: conversion of Parquet records to JSON lines / CSV rows.        *)
(*                                                                         *)
(* Four specifications share the variables below:                          *)
(*   Spec      converter.rs `convert`: projection, then one loop step per  *)
(*             record (JSON lines or CSV).                                 *)
(*   SpecMain  main.rs `convert` (the binary's own copy of the pipeline).  *)
(*   SpecMap   the value mapper (element_to_value and friends) applied to  *)
(*             one typed field drawn from a bounded set.                   *)
(*   SpecScalar the mapper and the CSV cell rendering applied to one       *)
(*             scalar field (integers, timestamps, decimals, doubles).     *)
(***************************************************************************)
EXTENDS Integers, Sequences, FiniteSets, TLC

VARIABLES
    settings,         \* Settings (settings.rs): the three omit_* flags, csv, columns
    file_fields,      \* top-level field names of the file schema, in declared order
    file_rows,        \* the records stored in the file (one Field per file field)
    pc,               \* position of the run
    schema,           \* Option<SchemaType>: the projected top-level field names
    missing_columns,  \* HashSet<String> filled by projected_schema
    rows,             \* RowIter: the records not pulled yet
    pulled,           \* number of records pulled from the iterator so far
    writer,           \* the lines written to the output so far
    panic_msg,        \* the message of the panic that aborted the run, or ""
    m_field,          \* SpecMap: the typed field handed to the mapper
    m_value,          \* SpecMap: the JSON value the mapper returned
    m_line            \* SpecMap: the JSON line written for m_field as a record

vars == <<settings, file_fields, file_rows, pc, schema, missing_columns,
          rows, pulled, writer, panic_msg, m_field, m_value, m_line>>

----------------------------------------------------------------------------
(* Bounds of the model.                                                    *)

MaxDepth == 3      \* nesting depth of the fields handed to the mapper
MaxEntries == 3    \* entries of a Map in the wide-map inputs
MaxCols == 2       \* length of the requested column list
MaxRows == 2       \* records in the file

----------------------------------------------------------------------------
(* Generic helpers.                                                        *)

Range(s) == {s[i] : i \in DOMAIN s}

\* Option<T>
None == [some |-> FALSE]
Some(x) == [some |-> TRUE, v |-> x]

RECURSIVE Join(_)
Join(cs) == IF cs = <<>> THEN "" ELSE Head(cs) \o Join(Tail(cs))

RECURSIVE JoinWith(_, _)
JoinWith(strs, sep) ==
    IF strs = <<>> THEN ""
    ELSE IF Len(strs) = 1 THEN strs[1]
    ELSE strs[1] \o sep \o JoinWith(Tail(strs), sep)

Digit(d) == <<"0", "1", "2", "3", "4", "5", "6", "7", "8", "9">>[d + 1]

\* Decimal text of a natural number / of an integer (Display for i64, u64).
RECURSIVE NatToStr(_)
NatToStr(n) == IF n < 10 THEN Digit(n) ELSE NatToStr(n \div 10) \o Digit(n % 10)

IntToStr(n) == IF n < 0 THEN "-" \o NatToStr(0 - n) ELSE NatToStr(n)

----------------------------------------------------------------------------
(* 64-bit integers. A u64 is the sequence of its decimal digits, most      *)
(* significant first, without leading zeros (zero is <<0>>); an i64 is a   *)
(* sign and such a magnitude. The arithmetic below is the schoolbook       *)
(* arithmetic on digits, so that the full 64-bit range is covered.         *)

RECURSIVE Norm(_)
Norm(ds) == IF Len(ds) > 1 /\ Head(ds) = 0 THEN Norm(Tail(ds)) ELSE ds

RECURSIVE Digits(_)
Digits(n) == IF n < 10 THEN <<n>> ELSE Append(Digits(n \div 10), n % 10)

\* The digits of n, left-padded with zeros to w digits.
Padded(n, w) == LET ds == Digits(n) IN [i \in 1..(w - Len(ds)) |-> 0] \o ds

\* The number written as chunks of nine digits: 9|223372036|854775807.
RECURSIVE FromChunks(_)
FromChunks(chunks) ==
    IF Len(chunks) = 1 THEN Digits(chunks[1])
    ELSE Norm(FromChunks(SubSeq(chunks, 1, Len(chunks) - 1))
                \o Padded(chunks[Len(chunks)], 9))

\* The value of a digit sequence that fits the integers of the checker.
RECURSIVE ToNat(_)
ToNat(ds) == IF ds = <<>> THEN 0 ELSE ToNat(SubSeq(ds, 1, Len(ds) - 1)) * 10 + ds[Len(ds)]

RECURSIVE LexLess(_, _)
LexLess(a, b) ==
    /\ a # <<>>
    /\ \/ Head(a) < Head(b)
       \/ Head(a) = Head(b) /\ LexLess(Tail(a), Tail(b))

BigLess(a, b) == Len(a) < Len(b) \/ (Len(a) = Len(b) /\ LexLess(a, b))
BigLeq(a, b) == a = b \/ BigLess(a, b)

\* a + b + carry over the last i digits handled so far (digits are read from
\* the least significant end).
RECURSIVE AddLoop(_, _, _, _)
AddLoop(a, b, carry, acc) ==
    IF a = <<>> /\ b = <<>> THEN (IF carry = 0 THEN acc ELSE <<carry>> \o acc)
    ELSE LET da == IF a = <<>> THEN 0 ELSE a[Len(a)]
             db == IF b = <<>> THEN 0 ELSE b[Len(b)]
             sum == da + db + carry
             ra == IF a = <<>> THEN a ELSE SubSeq(a, 1, Len(a) - 1)
             rb == IF b = <<>> THEN b ELSE SubSeq(b, 1, Len(b) - 1)
         IN AddLoop(ra, rb, sum \div 10, <<sum % 10>> \o acc)

BigAdd(a, b) == Norm(AddLoop(a, b, 0, <<>>))

\* a - b for a >= b.
RECURSIVE SubLoop(_, _, _, _)
SubLoop(a, b, borrow, acc) ==
    IF a = <<>> THEN acc
    ELSE LET db == IF b = <<>> THEN 0 ELSE b[Len(b)]
             diff == a[Len(a)] - db - borrow
             rb == IF b = <<>> THEN b ELSE SubSeq(b, 1, Len(b) - 1)
         IN SubLoop(SubSeq(a, 1, Len(a) - 1), rb,
                    IF diff < 0 THEN 1 ELSE 0,
                    <<IF diff < 0 THEN diff + 10 ELSE diff>> \o acc)

BigSub(a, b) == Norm(SubLoop(a, b, 0, <<>>))

\* a * n for a small factor n.
RECURSIVE MulLoop(_, _, _, _)
MulLoop(a, n, carry, acc) ==
    IF a = <<>> THEN (IF carry = 0 THEN acc ELSE Digits(carry) \o acc)
    ELSE LET prod == a[Len(a)] * n + carry
         IN MulLoop(SubSeq(a, 1, Len(a) - 1), n, prod \div 10, <<prod % 10>> \o acc)

BigMul(a, n) == Norm(MulLoop(a, n, 0, <<>>))

\* Long division of a by a small divisor n: the quotient digits and the
\* remainder.
RECURSIVE DivLoop(_, _, _, _)
DivLoop(a, n, rem, acc) ==
    IF a = <<>> THEN [quot |-> Norm(acc), rem |-> rem]
    ELSE LET cur == rem * 10 + Head(a)
         IN DivLoop(Tail(a), n, cur % n, Append(acc, cur \div n))

BigDiv(a, n) == DivLoop(a, n, 0, <<0>>).quot
BigRem(a, n) == DivLoop(a, n, 0, <<0>>).rem

RECURSIVE DigitsToStr(_)
DigitsToStr(ds) == IF ds = <<>> THEN "" ELSE Digit(Head(ds)) \o DigitsToStr(Tail(ds))

\* 2^63 - 1 = 9223372036854775807
I64_MAX == <<9, 2, 2, 3, 3, 7, 2, 0, 3, 6, 8, 5, 4, 7, 7, 5, 8, 0, 7>>
\* 2^63 = 9223372036854775808
TWO_63 == <<9, 2, 2, 3, 3, 7, 2, 0, 3, 6, 8, 5, 4, 7, 7, 5, 8, 0, 8>>
\* 2^64 - 1 = 18446744073709551615
U64_MAX == <<1, 8, 4, 4, 6, 7, 4, 4, 0, 7, 3, 7, 0, 9, 5, 5, 1, 6, 1, 5>>
\* 2^64 = 18446744073709551616
TWO_64 == <<1, 8, 4, 4, 6, 7, 4, 4, 0, 7, 3, 7, 0, 9, 5, 5, 1, 6, 1, 6>>

\* An i64 value.
I64(neg, mag) == [neg |-> neg /\ mag # <<0>>, mag |-> mag]

\* `x as i64` for a u64 x: the two's-complement reinterpretation.
as_i64(x) == IF BigLeq(x, I64_MAX) THEN I64(FALSE, x) ELSE I64(TRUE, BigSub(TWO_64, x))

\* Whether a sign and magnitude fit an i64.
fits_i64(neg, mag) == IF neg THEN BigLeq(mag, TWO_63) ELSE BigLeq(mag, I64_MAX)

\* i64::checked_mul by a small positive factor, i64::checked_add.
checked_mul(x, n) ==
    LET mag == BigMul(x.mag, n)
    IN IF fits_i64(x.neg, mag) THEN Some(I64(x.neg, mag)) ELSE None

checked_add(x, y) ==
    LET sum == IF x.neg = y.neg THEN I64(x.neg, BigAdd(x.mag, y.mag))
               ELSE IF BigLeq(y.mag, x.mag) THEN I64(x.neg, BigSub(x.mag, y.mag))
               ELSE I64(y.neg, BigSub(y.mag, x.mag))
    IN IF fits_i64(sum.neg, sum.mag) THEN Some(sum) ELSE None

\* Display for i64.
I64ToStr(x) == (IF x.neg THEN "-" ELSE "") \o DigitsToStr(x.mag)

----------------------------------------------------------------------------
(* Typed fields (parquet::record::Field) as tagged records.                *)
(* A Double is held as the character sequence of its shortest              *)
(* round-trippable text (what ryu prints), or <<"NaN">> for a NaN.         *)

FNull == [k |-> "Null"]
FBool(b) == [k |-> "Bool", b |-> b]
FLong(n) == [k |-> "Long", n |-> n]
FStr(s) == [k |-> "Str", s |-> s]
FDouble(cs) == [k |-> "Double", cs |-> cs]
FBytes(bs) == [k |-> "Bytes", bytes |-> bs]
FGroup(fs) == [k |-> "Group", fields |-> fs]       \* <<name, Field>> pairs
FList(es) == [k |-> "ListInternal", elements |-> es] \* Fields
FMap(es) == [k |-> "MapInternal", entries |-> es]   \* <<key Field, value Field>> pairs

\* The other integer variants; FLong and these hold an integer of the checker.
FByte(n) == [k |-> "Byte", n |-> n]
FShort(n) == [k |-> "Short", n |-> n]
FInt(n) == [k |-> "Int", n |-> n]
FUByte(n) == [k |-> "UByte", n |-> n]
FUShort(n) == [k |-> "UShort", n |-> n]
FUInt(n) == [k |-> "UInt", n |-> n]
\* The variants that hold a u64 (a digit sequence).
FULong(u) == [k |-> "ULong", u |-> u]
FTimestampMillis(ts) == [k |-> "TimestampMillis", ts |-> ts]
FTimestampMicros(ts) == [k |-> "TimestampMicros", ts |-> ts]
\* parquet::data_type::Decimal: the big-endian bytes of the unscaled value.
FDecimal(data, precision, scale) ==
    [k |-> "Decimal", data |-> data, precision |-> precision, scale |-> scale]

NaN == <<"NaN">>

(* JSON values (serde_json::Value). An Object is the sequence of its       *)
(* <<key, value>> entries in insertion order. Panic stands for the process *)
(* having panicked while the value was being built.                        *)

JNull == [t |-> "Null"]
JBool(b) == [t |-> "Bool", b |-> b]
JInt(n) == [t |-> "Int", n |-> n]
JFloat(cs) == [t |-> "Float", cs |-> cs]
JStr(s) == [t |-> "String", s |-> s]
JArr(vs) == [t |-> "Array", items |-> vs]
JObj(es) == [t |-> "Object", entries |-> es]
\* Value::Number built from an i64 or a u64: a sign and a magnitude.
JNum(neg, mag) == [t |-> "Number", neg |-> neg, mag |-> mag]
Panic == [t |-> "Panic"]

is_null(value) == value = JNull

\* serde_json::Map::insert: a new key is appended, an existing key keeps its
\* place and takes the new value.
MapInsert(map, key, value) ==
    IF \E i \in DOMAIN map : map[i][1] = key
    THEN [i \in DOMAIN map |-> IF map[i][1] = key THEN <<key, value>> ELSE map[i]]
    ELSE Append(map, <<key, value>>)

\* serde_json::to_string / Display for Value: compact JSON text.
RECURSIVE to_string(_)
to_string(value) ==
    CASE value.t = "Null" -> "null"
      [] value.t = "Bool" -> (IF value.b THEN "true" ELSE "false")
      [] value.t = "Int" -> IntToStr(value.n)
      [] value.t = "Number" -> I64ToStr(value)
      [] value.t = "Float" -> Join(value.cs)
      [] value.t = "String" -> "\"" \o value.s \o "\""
      [] value.t = "Array" ->
            "[" \o JoinWith([i \in DOMAIN value.items |-> to_string(value.items[i])], ",")
                \o "]"
      [] value.t = "Object" ->
            "{" \o JoinWith([i \in DOMAIN value.entries |->
                               "\"" \o value.entries[i][1] \o "\":"
                                    \o to_string(value.entries[i][2])],
                            ",") \o "}"

----------------------------------------------------------------------------
(* The value mapper of converter.rs.                                       *)

bytes_to_value(bytes) == JArr([i \in DOMAIN bytes |-> JInt(bytes[i])])

\* Number::from_f64 is None for NaN and the infinities.
float_to_value(f) == IF f = NaN THEN JNull ELSE JFloat(f)

\* Mutant of ulong_to_value: the value is cast whatever the setting is.
ulong_to_value_always_cast(l, s) ==
    LET signed == as_i64(l) IN JNum(signed.neg, signed.mag)

ulong_to_value(l, s) ==
    IF s.convert_types
    THEN LET signed == as_i64(l) IN JNum(signed.neg, signed.mag)
    ELSE JNum(FALSE, l)

\* 621355968000000000
TICKS_TILL_UNIX_TIME == <<6, 2, 1, 3, 5, 5, 9, 6, 8, 0, 0, 0, 0, 0, 0, 0, 0, 0>>

\* The civil date of a day count from 1970-01-01 (the proleptic Gregorian
\* calendar chrono uses), computed era by era: the day and the year within
\* the 400-year era, the day of the year counted from March 1st, the month.
civil_from_mp(era, yoe, doy, mp) ==
    [year |-> yoe + era * 400 + (IF mp < 10 THEN 0 ELSE 1),
     month |-> IF mp < 10 THEN mp + 3 ELSE mp - 9,
     day |-> doy - (153 * mp + 2) \div 5 + 1]

civil_from_doy(era, yoe, doy) == civil_from_mp(era, yoe, doy, (5 * doy + 2) \div 153)

civil_from_yoe(era, doe, yoe) ==
    civil_from_doy(era, yoe, doe - (365 * yoe + yoe \div 4 - yoe \div 100))

civil_from_doe(era, doe) ==
    civil_from_yoe(era, doe,
                   (doe - doe \div 1460 + doe \div 36524 - doe \div 146096) \div 365)

civil_from_days(days) ==
    civil_from_doe((days + 719468) \div 146097, (days + 719468) % 146097)

\* The last day chrono's NaiveDate can hold, 262143-12-31, as a day count
\* from 1970-01-01.
MAX_DATE_DAYS == 95026601

\* chrono::NaiveDateTime::from_timestamp_opt for seconds >= 0: None when the
\* day is past the last date NaiveDate can hold.
from_timestamp_opt(seconds, nanos) ==
    LET days == BigDiv(seconds, 86400)
        secs == BigRem(seconds, 86400)
    IN IF BigLess(Digits(MAX_DATE_DAYS), days) THEN None
       ELSE Some([date |-> civil_from_days(ToNat(days)), secs |-> secs, nanos |-> nanos])

ZeroPadded(n, w) == DigitsToStr(Padded(n, w))

\* datetime.format("%Y-%m-%dT%H:%M:%S.%6fZ"): %Y is four digits, with a sign
\* in front of a year past 9999.
format_iso(dt) ==
    (IF dt.date.year > 9999 THEN "+" \o ZeroPadded(dt.date.year, 5)
     ELSE ZeroPadded(dt.date.year, 4))
      \o "-" \o ZeroPadded(dt.date.month, 2) \o "-" \o ZeroPadded(dt.date.day, 2)
      \o "T" \o ZeroPadded(dt.secs \div 3600, 2)
      \o ":" \o ZeroPadded((dt.secs % 3600) \div 60, 2)
      \o ":" \o ZeroPadded(dt.secs % 60, 2)
      \o "." \o ZeroPadded(dt.nanos \div 1000, 6) \o "Z"

\* Lines 287-290: the cast to i64 and the clamp of a negative value.
clamped(cast) == IF cast.neg THEN I64(FALSE, <<0>>) ELSE cast

\* Option::and_then(|t| t.checked_add(...)) and map(...).unwrap_or(Value::Null).
and_then_checked_add(mul, y) == IF mul.some THEN checked_add(mul.v, y) ELSE None

number_or_null(ticks) == IF ticks.some THEN JNum(ticks.v.neg, ticks.v.mag) ELSE JNull

iso_str_or_null(datetime) ==
    IF datetime.some THEN JStr(format_iso(datetime.v)) ELSE JNull

\* Mutant of render_timestamp: the ticks are computed without the overflow
\* checks of checked_mul and checked_add.
render_timestamp_unchecked(rendering, timestamp) ==
    CASE rendering = "Ticks" ->
            JNum(FALSE, BigAdd(BigMul(timestamp.mag, 10000), TICKS_TILL_UNIX_TIME))
      [] rendering = "IsoStr" ->
            iso_str_or_null(from_timestamp_opt(BigDiv(timestamp.mag, 1000),
                                               BigRem(timestamp.mag, 1000) * 1000000))
      [] rendering = "UnixMs" -> JNum(timestamp.neg, timestamp.mag)

\* The match of timestamp_to_value on settings.timestamp_rendering.
render_timestamp(rendering, timestamp) ==
    CASE rendering = "Ticks" ->
            number_or_null(and_then_checked_add(checked_mul(timestamp, 10000),
                                                I64(FALSE, TICKS_TILL_UNIX_TIME)))
      [] rendering = "IsoStr" ->
            iso_str_or_null(from_timestamp_opt(BigDiv(timestamp.mag, 1000),
                                               BigRem(timestamp.mag, 1000) * 1000000))
      [] rendering = "UnixMs" -> JNum(timestamp.neg, timestamp.mag)

timestamp_to_value(s, ts) == render_timestamp(s.timestamp_rendering, clamped(as_i64(ts)))

\* BigInt::from_signed_bytes_be: the big-endian two's-complement value of the
\* bytes (zero for no bytes).
RECURSIVE from_unsigned_bytes_be(_)
from_unsigned_bytes_be(data) ==
    IF data = <<>> THEN 0
    ELSE from_unsigned_bytes_be(SubSeq(data, 1, Len(data) - 1)) * 256 + data[Len(data)]

RECURSIVE Pow256(_)
Pow256(n) == IF n = 0 THEN 1 ELSE 256 * Pow256(n - 1)

from_signed_bytes_be(data) ==
    IF data # <<>> /\ data[1] >= 128
    THEN from_unsigned_bytes_be(data) - Pow256(Len(data))
    ELSE from_unsigned_bytes_be(data)

\* BigInt::to_string as a sequence of characters.
RECURSIVE NatChars(_)
NatChars(n) == IF n < 10 THEN <<Digit(n)>> ELSE Append(NatChars(n \div 10), Digit(n % 10))

IntChars(n) == IF n < 0 THEN <<"-">> \o NatChars(0 - n) ELSE NatChars(n)

\* String::insert / insert_str at a byte index.
Insert(str, idx, chars) == SubSeq(str, 1, idx) \o chars \o SubSeq(str, idx + 1, Len(str))

\* The `while point < 0` loop of decimal_to_string.
RECURSIVE prepend_zeros(_, _, _)
prepend_zeros(num_str, point, negative) ==
    IF point < 0 THEN prepend_zeros(Insert(num_str, negative, <<"0">>), point + 1, negative)
    ELSE num_str

\* The assertion decimal_to_string opens with.
decimal_assert(decimal) == decimal.scale >= 0 /\ decimal.precision > decimal.scale

\* Mutant of decimal_to_string: the sign is not taken off the length when
\* the place of the point is computed.
decimal_to_string_sign_counted(decimal) ==
    LET num == from_signed_bytes_be(decimal.data)
        negative == IF num < 0 THEN 1 ELSE 0
        num_str == IntChars(num)
        point == Len(num_str) - decimal.scale
    IN IF point <= 0
       THEN Insert(prepend_zeros(num_str, point, negative), negative, <<"0", ".">>)
       ELSE Insert(num_str, point + negative, <<".">>)

\* The String returned, as the sequence of its characters.
decimal_to_string(decimal) ==
    LET num == from_signed_bytes_be(decimal.data)
        negative == IF num < 0 THEN 1 ELSE 0
        num_str == IntChars(num)
        point == Len(num_str) - decimal.scale - negative
    IN IF point <= 0
       THEN Insert(prepend_zeros(num_str, point, negative), negative, <<"0", ".">>)
       ELSE Insert(num_str, point + negative, <<".">>)

RECURSIVE element_to_value(_, _)

\* The state of a mapper loop: the object built so far, or the panic that
\* ended the loop.
Built(map) == [panicked |-> FALSE, map |-> map]
Panicked == [panicked |-> TRUE, map |-> <<>>]

\* Mutant of row_to_value_loop: the pair is dropped when the field is the
\* Null variant, not when its mapped value is Null.
RECURSIVE row_to_value_loop_null_variant(_, _, _, _)
row_to_value_loop_null_variant(s, row, i, map) ==
    IF i > Len(row) THEN Built(map)
    ELSE LET value == element_to_value(s, row[i][2])
         IN IF value = Panic THEN Panicked
            ELSE IF ~(s.omit_nulls /\ row[i][2].k = "Null")
                 THEN row_to_value_loop_null_variant(s, row, i + 1,
                                                     MapInsert(map, row[i][1], value))
                 ELSE row_to_value_loop_null_variant(s, row, i + 1, map)

\* The loop of row_to_value over the columns from index i on.
RECURSIVE row_to_value_loop(_, _, _, _)
row_to_value_loop(s, row, i, map) ==
    IF i > Len(row) THEN Built(map)
    ELSE LET value == element_to_value(s, row[i][2])
         IN IF value = Panic THEN Panicked
            ELSE IF ~(s.omit_nulls /\ is_null(value))
                 THEN row_to_value_loop(s, row, i + 1, MapInsert(map, row[i][1], value))
                 ELSE row_to_value_loop(s, row, i + 1, map)

row_to_value(s, row) ==
    LET res == row_to_value_loop(s, row, 1, <<>>)
    IN IF res.panicked THEN Panic
       ELSE IF s.omit_empty_bags /\ res.map = <<>> THEN JNull
       ELSE JObj(res.map)

\* Mutant of list_to_value: Null elements are dropped under omit_nulls.
list_to_value_omit_nulls(s, list) ==
    LET all == [i \in DOMAIN list |-> element_to_value(s, list[i])]
        NotNull(value) == ~(s.omit_nulls /\ is_null(value))
        arr == SelectSeq(all, NotNull)
    IN IF \E i \in DOMAIN all : all[i] = Panic THEN Panic
       ELSE IF s.omit_empty_lists /\ arr = <<>> THEN JNull
       ELSE JArr(arr)

\* Mutant of list_to_value: an empty array is returned as it is.
list_to_value_keep_empty(s, list) ==
    LET arr == [i \in DOMAIN list |-> element_to_value(s, list[i])]
    IN IF \E i \in DOMAIN arr : arr[i] = Panic THEN Panic
       ELSE JArr(arr)

list_to_value(s, list) ==
    LET arr == [i \in DOMAIN list |-> element_to_value(s, list[i])]
    IN IF \E i \in DOMAIN arr : arr[i] = Panic THEN Panic
       ELSE IF s.omit_empty_lists /\ arr = <<>> THEN JNull
       ELSE JArr(arr)

\* The key match of map_to_value: the variants that do not reach the panic
\* arm, and the text a supported key is rendered to.
supported_key(key_type) ==
    key_type.k \in {"Null", "Bool", "Byte", "Short", "Int", "Long",
                    "UByte", "UShort", "UInt", "ULong", "Str"}

map_key(s, key_type) ==
    CASE key_type.k = "Null" -> "null"
      [] key_type.k \in {"Bool", "Byte", "Short", "Int", "Long",
                         "UByte", "UShort", "UInt", "ULong"} ->
            to_string(element_to_value(s, key_type))
      [] key_type.k = "Str" -> key_type.s

RECURSIVE map_to_value_loop(_, _, _, _)
map_to_value_loop(s, entries, i, jsmap) ==
    IF i > Len(entries) THEN Built(jsmap)
    ELSE IF ~supported_key(entries[i][1]) THEN Panicked
    ELSE LET key == map_key(s, entries[i][1])
             value == element_to_value(s, entries[i][2])
         IN IF value = Panic THEN Panicked
            ELSE IF ~(s.omit_nulls /\ is_null(value))
                 THEN map_to_value_loop(s, entries, i + 1, MapInsert(jsmap, key, value))
                 ELSE map_to_value_loop(s, entries, i + 1, jsmap)

map_to_value(s, entries) ==
    LET res == map_to_value_loop(s, entries, 1, <<>>)
    IN IF res.panicked THEN Panic
       ELSE IF s.omit_empty_bags /\ res.map = <<>> THEN JNull
       ELSE JObj(res.map)

element_to_value(s, field) ==
    CASE field.k = "ULong" -> ulong_to_value(field.u, s)
      [] field.k = "Bytes" -> bytes_to_value(field.bytes)
      [] field.k = "Double" -> float_to_value(field.cs)
      [] field.k = "Decimal" ->
            IF decimal_assert(field) THEN JStr(Join(decimal_to_string(field))) ELSE Panic
      [] field.k = "TimestampMillis" -> timestamp_to_value(s, field.ts)
      [] field.k = "TimestampMicros" -> timestamp_to_value(s, BigDiv(field.ts, 1000))
      [] field.k = "Group" -> row_to_value(s, field.fields)
      [] field.k = "ListInternal" -> list_to_value(s, field.elements)
      [] field.k = "MapInternal" -> map_to_value(s, field.entries)
      \* field.to_json_value()
      [] field.k = "Null" -> JNull
      [] field.k = "Bool" -> JBool(field.b)
      [] field.k \in {"Byte", "Short", "Int", "Long", "UByte", "UShort", "UInt"} ->
            JInt(field.n)
      [] field.k = "Str" -> JStr(field.s)

\* Mutant of top_level_value: a Null record is written as it is.
top_level_value_kept_null(value) == value

\* Lines 119-123 of top_level_rows_to_json: a Null record becomes {}.
top_level_value(value) == IF is_null(value) THEN JObj(<<>>) ELSE value

----------------------------------------------------------------------------
(* CSV cells.                                                              *)

\* str::trim_end_matches(c) on a character sequence.
RECURSIVE trim_end_matches(_, _)
trim_end_matches(cs, c) ==
    IF cs # <<>> /\ cs[Len(cs)] = c
    THEN trim_end_matches(SubSeq(cs, 1, Len(cs) - 1), c)
    ELSE cs

truncate_trailing_zeros(cs) == trim_end_matches(trim_end_matches(cs, "0"), ".")

value_to_csv(value) ==
    CASE value.t = "Null" -> ""
      [] value.t = "Bool" -> (IF value.b THEN "true" ELSE "false")
      [] value.t = "Float" -> Join(truncate_trailing_zeros(value.cs))
      [] value.t = "Int" -> IntToStr(value.n)
      [] value.t = "Number" -> I64ToStr(value)
      [] value.t = "String" -> value.s
      [] value.t = "Array" -> to_string(value)
      [] value.t = "Object" -> to_string(value)

----------------------------------------------------------------------------
(* Column projection and the record source.                                *)

\* The loop of projected_schema over the requested columns from index i on:
\* a requested name that is a key of schema_fields is pushed, any other name
\* is inserted into missing_columns.
RECURSIVE projected_schema_loop(_, _, _, _, _)
projected_schema_loop(schema_fields, columns, i, projected_fields, missing) ==
    IF i > Len(columns) THEN [fields |-> projected_fields, missing |-> missing]
    ELSE IF columns[i] \in schema_fields
         THEN projected_schema_loop(schema_fields, columns, i + 1,
                                    Append(projected_fields, columns[i]), missing)
         ELSE projected_schema_loop(schema_fields, columns, i + 1,
                                    projected_fields, missing \cup {columns[i]})

\* Mutant of projected_schema: the projected fields in the file's declared
\* order.
projected_schema_file_order(fields, columns) ==
    LET Requested(name) == name \in Range(columns)
    IN [fields |-> SelectSeq(fields, Requested),
        missing |-> Range(columns) \ Range(fields)]

\* Mutant of projected_schema: a name requested again is not pushed again.
RECURSIVE projected_schema_dedup_loop(_, _, _, _, _)
projected_schema_dedup_loop(schema_fields, columns, i, projected_fields, missing) ==
    IF i > Len(columns) THEN [fields |-> projected_fields, missing |-> missing]
    ELSE IF columns[i] \in schema_fields
         THEN projected_schema_dedup_loop(
                  schema_fields, columns, i + 1,
                  IF columns[i] \in Range(projected_fields) THEN projected_fields
                  ELSE Append(projected_fields, columns[i]),
                  missing)
         ELSE projected_schema_dedup_loop(schema_fields, columns, i + 1,
                                          projected_fields, missing \cup {columns[i]})

projected_schema_dedup(fields, columns) ==
    projected_schema_dedup_loop(Range(fields), columns, 1, <<>>, {})

projected_schema(fields, columns) ==
    projected_schema_loop(Range(fields), columns, 1, <<>>, {})

\* The value a file record holds for the top-level field `name`.
ColumnOf(fields, record, name) ==
    record[CHOOSE i \in DOMAIN fields : fields[i] = name]

\* reader.get_row_iter(schema): every record of the file, limited to the
\* fields of the projected schema in the order of that schema (all fields in
\* declared order when there is no projection).
get_row_iter(proj, fields, records) ==
    LET names == IF proj.some THEN proj.v ELSE fields
    IN [r \in DOMAIN records |->
          [c \in DOMAIN names |-> <<names[c], ColumnOf(fields, records[r], names[c])>>]]

\* The value of row_columns_map.get(col) in top_level_rows_to_csv.
row_column(row, col) ==
    IF \E i \in DOMAIN row : row[i][1] = col
    THEN Some(row[CHOOSE i \in DOMAIN row : row[i][1] = col][2])
    ELSE None

\* Mutant of csv_values: one cell per column of the record, the requested
\* columns that are missing from the file getting none.
csv_values_row_columns(s, missing, row) ==
    [c \in DOMAIN row |-> element_to_value(s, row[c][2])]

\* The JSON values of the cells of one CSV row (lines 140-168), or Panic.
csv_values(s, missing, row) ==
    IF s.columns.some
    THEN [c \in DOMAIN s.columns.v |->
            IF s.columns.v[c] \in missing THEN JNull
            ELSE LET field == row_column(row, s.columns.v[c])
                 IN IF field.some THEN element_to_value(s, field.v) ELSE Panic]
    ELSE [c \in DOMAIN row |-> element_to_value(s, row[c][2])]

----------------------------------------------------------------------------
(* Settings and the inputs of the model.                                   *)

MapperSettings ==
    [omit_nulls : BOOLEAN, omit_empty_bags : BOOLEAN, omit_empty_lists : BOOLEAN,
     csv : {FALSE}, columns : {None}]

Leaves == {FNull, FLong(1), FDouble(NaN), FBytes(<<>>)}
Siblings == {FNull, FLong(1)}
UnsupportedKey == FDouble(<<"1", ".", "5">>)

\* Containers whose children are one member of X and at most one sibling.
GroupsOver(X) ==
    {FGroup(<<>>)}
      \cup {FGroup(<<<<"a", x>>>>) : x \in X}
      \cup {FGroup(<<<<"a", x>>, <<"b", y>>>>) : x \in X, y \in Siblings}
      \cup {FGroup(<<<<"a", y>>, <<"b", x>>>>) : x \in X, y \in Siblings}

ListsOver(X) ==
    {FList(<<>>)}
      \cup {FList(<<x>>) : x \in X}
      \cup {FList(<<x, y>>) : x \in X, y \in Siblings}

MapsOver(X) ==
    {FMap(<<>>)}
      \cup {FMap(<<<<key, x>>>>) : key \in {FStr("k"), UnsupportedKey}, x \in X}

RECURSIVE FieldsOfDepth(_)
FieldsOfDepth(d) ==
    IF d = 0 THEN Leaves
    ELSE LET X == FieldsOfDepth(d - 1)
         IN Leaves \cup GroupsOver(X) \cup ListsOver(X) \cup MapsOver(X)

\* Maps of 2..MaxEntries entries whose typed keys are pairwise distinct. The
\* keys of one map are of one variant, or Null.
KeyFamilies ==
    { {FNull, FStr("null"), FStr("k"), FStr("x")},
      {FNull, FLong(1), FLong(2)},
      {FNull, FBool(TRUE), FBool(FALSE)} }

DistinctKeys(family, n) ==
    {ks \in [1..n -> family] : \A i, j \in 1..n : i # j => ks[i] # ks[j]}

WideMaps ==
    UNION {UNION {{FMap([i \in 1..n |-> <<ks[i], vs[i]>>]) :
                       ks \in DistinctKeys(family, n), vs \in [1..n -> Siblings]} :
                  n \in 2..MaxEntries} :
           family \in KeyFamilies}

MapperInputs ==
    FieldsOfDepth(MaxDepth) \cup WideMaps \cup {FGroup(<<<<"a", m>>>>) : m \in WideMaps}

----------------------------------------------------------------------------
(* SpecMap: the mapper applied to one field.                               *)

InitMap ==
    /\ settings \in MapperSettings
    /\ m_field \in MapperInputs
    /\ m_value = None
    /\ m_line = None
    /\ pc = "field"
    /\ file_fields = <<>>
    /\ file_rows = <<>>
    /\ schema = None
    /\ missing_columns = {}
    /\ rows = <<>>
    /\ pulled = 0
    /\ writer = <<>>
    /\ panic_msg = ""

\* element_to_value(settings, field)
MapField ==
    /\ pc = "field"
    /\ m_value' = Some(element_to_value(settings, m_field))
    /\ pc' = "mapped"
    /\ UNCHANGED <<settings, file_fields, file_rows, schema, missing_columns,
                   rows, pulled, writer, panic_msg, m_field, m_line>>

\* One pass of the loop of top_level_rows_to_json over the record m_field.
MapRecord ==
    /\ pc = "field"
    /\ m_field.k = "Group"
    /\ LET value == row_to_value(settings, m_field.fields)
       IN /\ m_value' = Some(value)
          /\ IF value = Panic
             THEN /\ m_line' = None
                  /\ pc' = "aborted"
                  /\ panic_msg' = "Unsupported map key"
             ELSE /\ m_line' = Some(to_string(top_level_value(value)))
                  /\ pc' = "written"
                  /\ UNCHANGED panic_msg
    /\ UNCHANGED <<settings, file_fields, file_rows, schema, missing_columns,
                   rows, pulled, writer, m_field>>

NextMap == MapField \/ MapRecord

SpecMap == InitMap /\ [][NextMap]_vars

----------------------------------------------------------------------------
(* SpecScalar: the mapper and the CSV cell rendering applied to one scalar *)
(* field, or to a Map with one scalar key, under every setting.            *)

MaxDecimalBytes == 2   \* bytes of the unscaled value of a Decimal
MaxScale == 3          \* scale of a Decimal

ScalarSettings ==
    [omit_nulls : BOOLEAN, omit_empty_bags : BOOLEAN, omit_empty_lists : BOOLEAN,
     csv : {TRUE}, columns : {None},
     timestamp_rendering : {"Ticks", "IsoStr", "UnixMs"}, convert_types : BOOLEAN]

\* Integer fields of every variant, at the ends of the range of the variant
\* where the integers of the checker hold them.
SmallIntegers ==
    {FByte(-128), FByte(127), FShort(-32768), FShort(32767),
     FInt(-2147483647), FInt(2147483647), FLong(-7), FLong(0), FLong(2147483647),
     FUByte(255), FUShort(65535), FUInt(2147483647)}

U64Values == {<<0>>, <<1>>, I64_MAX, TWO_63, U64_MAX}

\* The largest millisecond values whose ticks fit an i64, whose product by
\* 10000 fits an i64, and their successors.
MillisValues ==
    U64Values \cup
    {Digits(1500), Digits(1999), FromChunks(<<1700, 123>>), FromChunks(<<1700000, 123999>>),
     FromChunks(<<860201, 606885477>>), FromChunks(<<860201, 606885478>>),
     FromChunks(<<922337, 203685477>>), FromChunks(<<922337, 203685478>>),
     BigSub(U64_MAX, Digits(999)), BigSub(U64_MAX, Digits(1000))}

ByteValues == {0, 1, 128, 255}

Decimals ==
    {FDecimal(data, scale + 1, scale) :
        data \in UNION {[1..n -> ByteValues] : n \in 0..MaxDecimalBytes},
        scale \in 0..MaxScale}
      \cup {FDecimal(<<1>>, 2, 2)}

\* Doubles as the text ryu prints for them.
Doubles ==
    {FDouble(cs) : cs \in {<<"1", ".", "5">>, <<"2", ".", "0">>, <<"1", "0", "0", ".", "0">>,
                           <<"0", ".", "1">>, <<"0", ".", "0">>, <<"-", "2", "0", ".", "0">>,
                           <<"1", "e", "2", "0">>, <<"1", "e", "-", "1", "0">>,
                           <<"1", ".", "5", "e", "3", "0", "0">>,
                           <<"1", ".", "2", "e", "-", "7">>, NaN}}

ScalarKeys ==
    SmallIntegers \cup {FULong(u) : u \in U64Values}
      \cup {FNull, FBool(TRUE), FBool(FALSE), FStr("k"), FStr("7"), UnsupportedKey}

ScalarInputs ==
    SmallIntegers \cup {FULong(u) : u \in U64Values}
      \cup {FTimestampMillis(ts) : ts \in MillisValues}
      \cup {FTimestampMicros(ts) : ts \in MillisValues}
      \cup Decimals \cup Doubles
      \cup {FNull, FBool(TRUE), FStr("k")}
      \cup {FMap(<<<<key, v>>>>) : key \in ScalarKeys, v \in {FLong(1)}}

InitScalar ==
    /\ settings \in ScalarSettings
    /\ m_field \in ScalarInputs
    /\ m_value = None
    /\ m_line = None
    /\ pc = "field"
    /\ file_fields = <<>>
    /\ file_rows = <<>>
    /\ schema = None
    /\ missing_columns = {}
    /\ rows = <<>>
    /\ pulled = 0
    /\ writer = <<>>
    /\ panic_msg = ""

\* One cell of top_level_rows_to_csv (lines 164-165): the field is mapped and
\* the value rendered by value_to_csv.
MapCell ==
    /\ pc = "field"
    /\ LET value == element_to_value(settings, m_field)
       IN /\ m_value' = Some(value)
          /\ IF value = Panic
             THEN /\ m_line' = None
                  /\ pc' = "aborted"
                  /\ panic_msg' = IF m_field.k = "Decimal" THEN "assertion failed"
                                  ELSE "Unsupported map key"
             ELSE /\ m_line' = Some(value_to_csv(value))
                  /\ pc' = "cell"
                  /\ UNCHANGED panic_msg
    /\ UNCHANGED <<settings, file_fields, file_rows, schema, missing_columns,
                   rows, pulled, writer, m_field>>

NextScalar == MapField \/ MapCell

SpecScalar == InitScalar /\ [][NextScalar]_vars

----------------------------------------------------------------------------
(* Spec: `convert` of converter.rs.                                        *)

FileSchemas == {<<"x", "y">>}
ColumnNames == {"x", "y", "z"}

\* The records a file may hold: one value for each field of FileSchemas.
FileRecords ==
    { <<FNull, FLong(7)>>,
      <<FGroup(<<<<"a", FNull>>>>), FDouble(<<"2", ".", "0">>)>>,
      <<FMap(<<<<UnsupportedKey, FLong(1)>>>>), FStr("s")>>,
      <<FNull, FList(<<FNull>>)>>,
      <<FGroup(<<<<"a", FNull>>>>), FBool(TRUE)>>,
      <<FMap(<<<<UnsupportedKey, FLong(1)>>>>), FLong(7)>> }

ColumnLists == UNION {[1..n -> ColumnNames] : n \in 1..MaxCols}

InitRun(csvs) ==
    /\ settings \in [omit_nulls : BOOLEAN, omit_empty_bags : BOOLEAN,
                     omit_empty_lists : BOOLEAN, csv : csvs,
                     columns : {None} \cup {Some(c) : c \in ColumnLists}]
    /\ file_fields \in FileSchemas
    /\ file_rows \in UNION {[1..n -> FileRecords] : n \in 0..MaxRows}
    /\ pc = "start"
    /\ schema = None
    /\ missing_columns = {}
    /\ rows = <<>>
    /\ pulled = 0
    /\ writer = <<>>
    /\ panic_msg = ""
    /\ m_field = FNull
    /\ m_value = None
    /\ m_line = None

Init == InitRun(BOOLEAN)

\* convert, up to the call of top_level_rows_to_csv / top_level_rows_to_json.
Convert ==
    /\ pc = "start"
    /\ IF settings.columns.some
       THEN LET p == projected_schema(file_fields, settings.columns.v)
            IN /\ schema' = Some(p.fields)
               /\ missing_columns' = p.missing
       ELSE /\ schema' = None
            /\ UNCHANGED missing_columns
    /\ rows' = get_row_iter(schema', file_fields, file_rows)
    /\ pc' = "rows"
    /\ UNCHANGED <<settings, file_fields, file_rows, pulled, writer, panic_msg,
                   m_field, m_value, m_line>>

\* Mutant of JsonStep: a record that fails to convert is skipped and the loop
\* goes on.
JsonStep_skip_failed ==
    /\ pc = "rows"
    /\ ~settings.csv
    /\ rows # <<>>
    /\ rows' = Tail(rows)
    /\ pulled' = pulled + 1
    /\ LET value == row_to_value(settings, Head(rows))
       IN IF value = Panic
          THEN UNCHANGED writer
          ELSE writer' = Append(writer, to_string(top_level_value(value)))
    /\ UNCHANGED <<settings, file_fields, file_rows, schema, missing_columns,
                   pc, panic_msg, m_field, m_value, m_line>>

\* One pass of the loop of top_level_rows_to_json.
JsonStep ==
    /\ pc = "rows"
    /\ ~settings.csv
    /\ rows # <<>>
    /\ rows' = Tail(rows)
    /\ pulled' = pulled + 1
    /\ LET value == row_to_value(settings, Head(rows))
       IN IF value = Panic
          THEN /\ pc' = "aborted"
               /\ panic_msg' = "Unsupported map key"
               /\ UNCHANGED writer
          ELSE /\ writer' = Append(writer, to_string(top_level_value(value)))
               /\ UNCHANGED <<pc, panic_msg>>
    /\ UNCHANGED <<settings, file_fields, file_rows, schema, missing_columns,
                   m_field, m_value, m_line>>

\* One pass of the loop of top_level_rows_to_csv. A written row is held as
\* the sequence of the cells handed to csv_writer.write_field.
CsvStep ==
    /\ pc = "rows"
    /\ settings.csv
    /\ rows # <<>>
    /\ rows' = Tail(rows)
    /\ pulled' = pulled + 1
    /\ LET values == csv_values(settings, missing_columns, Head(rows))
       IN IF \E c \in DOMAIN values : values[c] = Panic
          THEN /\ pc' = "aborted"
               /\ panic_msg' = "Unsupported map key"
               /\ UNCHANGED writer
          ELSE /\ writer' = Append(writer, [c \in DOMAIN values |-> value_to_csv(values[c])])
               /\ UNCHANGED <<pc, panic_msg>>
    /\ UNCHANGED <<settings, file_fields, file_rows, schema, missing_columns,
                   m_field, m_value, m_line>>

\* rows.next() is None: the loop ends and Ok(()) is returned.
Finish ==
    /\ pc = "rows"
    /\ rows = <<>>
    /\ pc' = "done"
    /\ UNCHANGED <<settings, file_fields, file_rows, schema, missing_columns,
                   rows, pulled, writer, panic_msg, m_field, m_value, m_line>>

Next == Convert \/ JsonStep \/ CsvStep \/ Finish

Spec == Init /\ [][Next]_vars

----------------------------------------------------------------------------
(* SpecMain: `convert` of main.rs, with the mapper main.rs defines.        *)

RECURSIVE main_element_to_value(_, _)

RECURSIVE main_row_to_value_loop(_, _, _, _)
main_row_to_value_loop(s, row, i, map) ==
    IF i > Len(row) THEN Built(map)
    ELSE LET value == main_element_to_value(s, row[i][2])
         IN IF value = Panic THEN Panicked
            ELSE IF ~(s.omit_nulls /\ is_null(value))
                 THEN main_row_to_value_loop(s, row, i + 1,
                                             MapInsert(map, row[i][1], value))
                 ELSE main_row_to_value_loop(s, row, i + 1, map)

main_row_to_value(s, row) ==
    LET res == main_row_to_value_loop(s, row, 1, <<>>)
    IN IF res.panicked THEN Panic
       ELSE IF s.omit_empty_bags /\ res.map = <<>> THEN JNull
       ELSE JObj(res.map)

main_list_to_value(s, list) ==
    LET arr == [i \in DOMAIN list |-> main_element_to_value(s, list[i])]
    IN IF \E i \in DOMAIN arr : arr[i] = Panic THEN Panic
       ELSE IF s.omit_empty_lists /\ arr = <<>> THEN JNull
       ELSE JArr(arr)

\* Any key that is not a string panics ("Non-string key").
RECURSIVE main_map_to_value_loop(_, _, _, _)
main_map_to_value_loop(s, entries, i, jsmap) ==
    IF i > Len(entries) THEN Built(jsmap)
    ELSE IF entries[i][1].k # "Str" THEN Panicked
    ELSE LET key == entries[i][1].s
             value == main_element_to_value(s, entries[i][2])
         IN IF value = Panic THEN Panicked
            ELSE IF ~(s.omit_nulls /\ is_null(value))
                 THEN main_map_to_value_loop(s, entries, i + 1,
                                             MapInsert(jsmap, key, value))
                 ELSE main_map_to_value_loop(s, entries, i + 1, jsmap)

main_map_to_value(s, entries) ==
    LET res == main_map_to_value_loop(s, entries, 1, <<>>)
    IN IF res.panicked THEN Panic
       ELSE IF s.omit_empty_bags /\ res.map = <<>> THEN JNull
       ELSE JObj(res.map)

\* The macro element_to_value! of main.rs.
main_element_to_value(s, field) ==
    CASE field.k = "Null" -> JNull
      [] field.k = "Bool" -> JBool(field.b)
      [] field.k = "Long" -> JInt(field.n)
      [] field.k = "Double" -> float_to_value(field.cs)
      [] field.k = "Str" -> JStr(field.s)
      [] field.k = "Bytes" -> bytes_to_value(field.bytes)
      [] field.k = "Group" -> main_row_to_value(s, field.fields)
      [] field.k = "ListInternal" -> main_list_to_value(s, field.elements)
      [] field.k = "MapInternal" -> main_map_to_value(s, field.entries)

top_level_row_to_value(s, row) ==
    LET value == main_row_to_value(s, row)
    IN IF value = Panic THEN Panic
       ELSE IF is_null(value) THEN JObj(<<>>) ELSE value

\* get_projected_schema: schema_fields[c] for every requested column; the
\* index panics when c is no key of schema_fields.
get_projected_schema(fields, columns) ==
    IF \E i \in DOMAIN columns : columns[i] \notin Range(fields)
    THEN None
    ELSE Some(columns)

InitMain == InitRun({FALSE})

\* convert of main.rs, up to its loop over the records.
MainConvert ==
    /\ pc = "start"
    /\ IF settings.columns.some
       THEN LET p == get_projected_schema(file_fields, settings.columns.v)
            IN IF p.some
               THEN /\ schema' = p
                    /\ rows' = get_row_iter(p, file_fields, file_rows)
                    /\ pc' = "rows"
                    /\ UNCHANGED panic_msg
               ELSE /\ pc' = "aborted"
                    /\ panic_msg' = "no entry found for key"
                    /\ UNCHANGED <<schema, rows>>
       ELSE /\ schema' = None
            /\ rows' = get_row_iter(None, file_fields, file_rows)
            /\ pc' = "rows"
            /\ UNCHANGED panic_msg
    /\ UNCHANGED <<settings, file_fields, file_rows, missing_columns, pulled, writer,
                   m_field, m_value, m_line>>

\* One pass of the loop of convert of main.rs.
MainStep ==
    /\ pc = "rows"
    /\ rows # <<>>
    /\ rows' = Tail(rows)
    /\ pulled' = pulled + 1
    /\ LET value == top_level_row_to_value(settings, Head(rows))
       IN IF value = Panic
          THEN /\ pc' = "aborted"
               /\ panic_msg' = "Non-string key"
               /\ UNCHANGED writer
          ELSE /\ writer' = Append(writer, to_string(value))
               /\ UNCHANGED <<pc, panic_msg>>
    /\ UNCHANGED <<settings, file_fields, file_rows, schema, missing_columns,
                   m_field, m_value, m_line>>

MainFinish ==
    /\ pc = "rows"
    /\ rows = <<>>
    /\ pc' = "done"
    /\ UNCHANGED <<settings, file_fields, file_rows, schema, missing_columns,
                   rows, pulled, writer, panic_msg, m_field, m_value, m_line>>

NextMain == MainConvert \/ MainStep \/ MainFinish

SpecMain == InitMain /\ [][NextMain]_vars

----------------------------------------------------------------------------
(* Properties of the value mapper (checked under SpecMap).                 *)

\* Every field nested in `field`, at any depth, and `field` itself.
RECURSIVE SubFields(_)
SubFields(field) ==
    {field} \cup
    (CASE field.k = "Group" ->
            UNION {SubFields(field.fields[i][2]) : i \in DOMAIN field.fields}
       [] field.k = "ListInternal" ->
            UNION {SubFields(field.elements[i]) : i \in DOMAIN field.elements}
       [] field.k = "MapInternal" ->
            UNION {SubFields(field.entries[i][2]) : i \in DOMAIN field.entries}
       [] OTHER -> {})

\* The value the mapper gives a field of the input: the value it returned
\* for the input itself, the value of the recursive call for a nested field.
MappedOf(field) ==
    IF field = m_field THEN m_value.v ELSE element_to_value(settings, field)

\* The <<name, mapped value>> pairs of a Group that the omit_nulls rule keeps.
KeptPairs(s, group) ==
    {<<group.fields[i][1], element_to_value(s, group.fields[i][2])>> :
        i \in {j \in DOMAIN group.fields :
                 ~(s.omit_nulls /\ element_to_value(s, group.fields[j][2]) = JNull)}}

\* C1: a Group maps to an object holding exactly the <<name, mapped value>>
\* pairs whose mapped value is not Null when omit_nulls is set, and a pair for
\* every field otherwise; children that became Null by the empty-bag or
\* empty-list rule are dropped alike, at every depth. (The Group is Null
\* instead only when omit_empty_bags is set and no pair is kept.)
C1_GroupHoldsKeptPairs ==
    pc = "mapped" =>
        \A g \in SubFields(m_field) :
            (g.k = "Group" /\ MappedOf(g) # Panic) =>
                LET value == MappedOf(g)
                    kept == KeptPairs(settings, g)
                IN IF value.t = "Object"
                   THEN /\ Range(value.entries) = kept
                        /\ Len(value.entries) = Cardinality(kept)
                        /\ ~settings.omit_nulls => Len(value.entries) = Len(g.fields)
                   ELSE /\ value = JNull
                        /\ settings.omit_empty_bags
                        /\ kept = {}

C1_Witness ==
    /\ pc = "mapped"
    /\ settings.omit_nulls /\ settings.omit_empty_bags
    /\ m_field = FGroup(<<<<"a", FGroup(<<<<"a", FGroup(<<<<"a", FDouble(NaN)>>>>)>>>>)>>,
                          <<"b", FLong(1)>>>>)
    /\ m_value = Some(JObj(<<<<"b", JInt(1)>>>>))

\* Every field of the Group is pruned: none survives into its object.
AllPruned(s, group) ==
    \A i \in DOMAIN group.fields :
        s.omit_nulls /\ element_to_value(s, group.fields[i][2]) = JNull

\* The <<key, child>> pairs of a parent Group or Map.
ChildrenOf(s, parent) ==
    IF parent.k = "Group" THEN parent.fields
    ELSE [i \in DOMAIN parent.entries |->
            <<map_key(s, parent.entries[i][1]), parent.entries[i][2]>>]

Parents(field) ==
    {p \in SubFields(field) : p.k \in {"Group", "MapInternal"} /\ MappedOf(p) # Panic}

EntriesOf(value) == IF value.t = "Object" THEN value.entries ELSE <<>>

TopLevelEmptyObject ==
    (pc = "written" /\ settings.omit_empty_bags /\ AllPruned(settings, m_field))
        => m_line = Some("{}")

\* C2 as stated: with omit_empty_bags, a Group whose every field is pruned is
\* written {} as the top-level record and is a literal null entry of its
\* parent Group or Map.
C2_Original ==
    /\ TopLevelEmptyObject
    /\ (pc \in {"mapped", "written"} /\ settings.omit_empty_bags) =>
          \A p \in Parents(m_field) :
              LET children == ChildrenOf(settings, p)
              IN \A i \in DOMAIN children :
                    (children[i][2].k = "Group" /\ AllPruned(settings, children[i][2]))
                        => <<children[i][1], JNull>> \in Range(EntriesOf(MappedOf(p)))

\* C2 amended: with omit_empty_bags, a Group whose every field is pruned is
\* written {} as the top-level record; nested under a parent Group or Map it
\* maps to Null, so its entry is omitted from the parent when omit_nulls is
\* set and is a literal null when omit_nulls is not set.
C2_Amended ==
    /\ TopLevelEmptyObject
    /\ (pc \in {"mapped", "written"} /\ settings.omit_empty_bags) =>
          \A p \in Parents(m_field) :
              LET children == ChildrenOf(settings, p)
                  entries == EntriesOf(MappedOf(p))
              IN \A i \in DOMAIN children :
                    (/\ children[i][2].k = "Group"
                     /\ AllPruned(settings, children[i][2])
                     /\ \A j \in DOMAIN children :
                            j # i => children[j][1] # children[i][1])
                        => /\ MappedOf(children[i][2]) = JNull
                           /\ IF settings.omit_nulls
                              THEN \A e \in DOMAIN entries :
                                       entries[e][1] # children[i][1]
                              ELSE <<children[i][1], JNull>> \in Range(entries)

C2_Witness ==
    /\ pc = "written"
    /\ settings.omit_nulls /\ settings.omit_empty_bags
    /\ m_field = FGroup(<<<<"a", FGroup(<<<<"a", FNull>>>>)>>>>)
    /\ m_value = Some(JNull)
    /\ m_line = Some("{}")

\* C4: a List of n >= 1 elements maps to an array of n values, position i
\* holding the mapped value of element i (a Null stays in place under every
\* setting); the List maps to Null only when it is empty and omit_empty_lists
\* is set.
C4_ListKeepsPositions ==
    pc = "mapped" =>
        \A l \in SubFields(m_field) :
            (l.k = "ListInternal" /\ MappedOf(l) # Panic) =>
                LET value == MappedOf(l)
                    n == Len(l.elements)
                IN /\ n >= 1 =>
                        /\ value.t = "Array"
                        /\ Len(value.items) = n
                        /\ \A i \in 1..n :
                              /\ value.items[i] = element_to_value(settings, l.elements[i])
                              /\ l.elements[i] = FNull => value.items[i] = JNull
                   /\ is_null(value) <=> (n = 0 /\ settings.omit_empty_lists)

C4_Witness ==
    /\ pc = "mapped"
    /\ settings.omit_nulls /\ settings.omit_empty_bags /\ settings.omit_empty_lists
    /\ m_field = FList(<<FGroup(<<<<"a", FNull>>>>), FNull>>)
    /\ m_value = Some(JArr(<<JNull, JNull>>))

Keys(entries) == [i \in DOMAIN entries |-> entries[i][1]]

\* The keys of a are keys of b, and they follow each other in a as they do in b.
OrderedSubset(a, b) ==
    /\ Range(a) \subseteq Range(b)
    /\ \A i, j \in DOMAIN a :
          i < j => \E x, y \in DOMAIN b : x < y /\ b[x] = a[i] /\ b[y] = a[j]

RECURSIVE KeysSubset(_, _)
KeysSubset(on, off) ==
    CASE on.t = "Object" /\ off.t = "Object" ->
            /\ OrderedSubset(Keys(on.entries), Keys(off.entries))
            /\ \A i \in DOMAIN on.entries, j \in DOMAIN off.entries :
                  on.entries[i][1] = off.entries[j][1]
                      => KeysSubset(on.entries[i][2], off.entries[j][2])
      [] on.t = "Array" /\ off.t = "Array" /\ Len(on.items) = Len(off.items) ->
            \A i \in DOMAIN on.items : KeysSubset(on.items[i], off.items[i])
      [] OTHER -> TRUE

\* C9: the keys present with omit_nulls enabled are a subset of the keys
\* present with it disabled, in the same relative order, at the top level and
\* inside every nested object that survives in both.
C9_OmitNullsKeepsKeyOrder ==
    (pc = "mapped" /\ settings.omit_nulls /\ m_value.v # Panic) =>
        KeysSubset(m_value.v,
                   element_to_value([settings EXCEPT !.omit_nulls = FALSE], m_field))

\* No Map nested in the field has two entries whose keys render to one text.
NoKeyCollision(field) ==
    \A m \in SubFields(field) :
        (m.k = "MapInternal" /\ \A i \in DOMAIN m.entries : supported_key(m.entries[i][1]))
            => \A i, j \in DOMAIN m.entries :
                  i # j => map_key(settings, m.entries[i][1])
                             # map_key(settings, m.entries[j][1])

\* C9 on the inputs that C10's collision of rendered keys does not touch.
C9_WithoutKeyCollision ==
    (pc = "mapped" /\ settings.omit_nulls /\ m_value.v # Panic /\ NoKeyCollision(m_field)) =>
        KeysSubset(m_value.v,
                   element_to_value([settings EXCEPT !.omit_nulls = FALSE], m_field))

\* C10: with omit_nulls off, a Map of n entries whose typed keys are pairwise
\* distinct maps to an object of exactly n entries, one per input entry.
C10_MapKeepsEveryEntry ==
    (pc = "mapped" /\ ~settings.omit_nulls) =>
        \A m \in SubFields(m_field) :
            (/\ m.k = "MapInternal"
             /\ Len(m.entries) >= 1
             /\ MappedOf(m) # Panic
             /\ \A i, j \in DOMAIN m.entries : i # j => m.entries[i][1] # m.entries[j][1])
                => /\ MappedOf(m).t = "Object"
                   /\ Len(MappedOf(m).entries) = Len(m.entries)

----------------------------------------------------------------------------
(* Properties of the run (checked under Spec and SpecMain).                *)

\* The i-th record the record source yields, and the line it is written as.
RowAt(i) == get_row_iter(schema, file_fields, file_rows)[i]
Fails(i) == row_to_value(settings, RowAt(i)) = Panic
LineOf(i) == to_string(top_level_value(row_to_value(settings, RowAt(i))))

\* C3: the JSON-lines output is one line per record in input order, each
\* written before the next record is pulled; when record k fails, the output
\* is the lines of records 1..k-1, record k is not skipped and nothing more
\* is pulled or written.
C3_JsonLinesInOrder ==
    (~settings.csv /\ pc # "start") =>
        /\ rows = SubSeq(get_row_iter(schema, file_fields, file_rows),
                         pulled + 1, Len(file_rows))
        /\ pc \in {"rows", "done"} =>
              /\ Len(writer) = pulled
              /\ \A i \in 1..pulled : ~Fails(i) /\ writer[i] = LineOf(i)
        /\ pc = "done" => pulled = Len(file_rows)
        /\ pc = "aborted" =>
              /\ pulled >= 1
              /\ Fails(pulled)
              /\ Len(writer) = pulled - 1
              /\ \A i \in 1..(pulled - 1) : ~Fails(i) /\ writer[i] = LineOf(i)
              /\ ~ENABLED Next

C3_Witness ==
    /\ ~settings.csv
    /\ pc = "aborted"
    /\ pulled = 2
    /\ Len(file_rows) = 2
    /\ Len(writer) = 1

RequestsAbsentColumn ==
    /\ settings.columns.some
    /\ \E i \in DOMAIN settings.columns.v : settings.columns.v[i] \notin Range(file_fields)

\* C5: a requested column that is absent from the file schema never aborts
\* the run: a schema of the present columns is returned and every record is
\* converted.
C5_AbsentColumnNeverAborts ==
    (RequestsAbsentColumn /\ pc # "start") =>
        /\ schema.some
        /\ Range(schema.v) = Range(settings.columns.v) \cap Range(file_fields)
        /\ panic_msg # "no entry found for key"

\* C5 for `convert` of converter.rs, whose projector records the absent
\* names: the absent names are in missing_columns, and a record that was
\* pulled without a panic has its line, which holds no key for them.
C5_ConverterKeepsRunning ==
    (RequestsAbsentColumn /\ pc # "start") =>
        /\ schema.some
        /\ Range(schema.v) = Range(settings.columns.v) \cap Range(file_fields)
        /\ missing_columns = Range(settings.columns.v) \ Range(file_fields)
        /\ pc = "aborted" => panic_msg = "Unsupported map key"
        /\ pc # "aborted" => Len(writer) = pulled
        /\ ~settings.csv =>
              \A i \in DOMAIN writer :
                  \A j \in DOMAIN RowAt(i) : RowAt(i)[j][1] \notin missing_columns

Count(seq, x) == Cardinality({i \in DOMAIN seq : seq[i] = x})

\* C6: the projector returns the file fields whose name was requested, in
\* the order the names were requested, and the set of the requested names
\* that name no file field; the two partition the requested names.
C6_ProjectionInRequestedOrder ==
    (settings.columns.some /\ pc # "start") =>
        LET cols == settings.columns.v
            Present(name) == name \in Range(file_fields)
        IN /\ schema = Some(SelectSeq(cols, Present))
           /\ missing_columns = {name \in Range(cols) : ~Present(name)}
           /\ Range(schema.v) \cap missing_columns = {}
           /\ Range(schema.v) \cup missing_columns = Range(cols)

C6_Witness ==
    /\ pc = "rows"
    /\ settings.columns = Some(<<"z", "y">>)
    /\ schema = Some(<<"y">>)
    /\ missing_columns = {"z"}

\* C7 as stated: the projected schema never holds the same field twice.
C7_Original ==
    (settings.columns.some /\ pc # "start") =>
        \A i, j \in DOMAIN schema.v : i # j => schema.v[i] # schema.v[j]

\* C7 amended: a name requested more than once is not deduplicated: the
\* projected schema holds the field once for each time it was requested.
C7_Amended ==
    (settings.columns.some /\ pc # "start") =>
        \A name \in Range(file_fields) :
            Count(schema.v, name) = Count(settings.columns.v, name)

C7_Witness ==
    /\ pc = "rows"
    /\ settings.columns = Some(<<"x", "x">>)
    /\ schema = Some(<<"x", "x">>)

\* C8: with a requested column list, every CSV row has one cell per
\* requested column in requested order; the cell of a missing column is
\* empty under every setting, the cell of a present column is the CSV text
\* of its mapped value, and a Null cell is written empty, never dropped.
C8_CsvOneCellPerRequestedColumn ==
    (settings.csv /\ settings.columns.some /\ pc # "start") =>
        LET cols == settings.columns.v
        IN \A r \in DOMAIN writer :
              /\ Len(writer[r]) = Len(cols)
              /\ \A c \in DOMAIN cols :
                    IF cols[c] \notin Range(file_fields)
                    THEN writer[r][c] = ""
                    ELSE LET value == element_to_value(
                                          settings,
                                          ColumnOf(file_fields, file_rows[r], cols[c]))
                         IN /\ writer[r][c] = value_to_csv(value)
                            /\ value = JNull => writer[r][c] = ""

C8_Witness ==
    /\ settings.csv
    /\ settings.omit_nulls /\ settings.omit_empty_bags
    /\ settings.columns = Some(<<"z", "x">>)
    /\ Len(writer) = 1
    /\ file_rows[1][1] = FGroup(<<<<"a", FNull>>>>)
    /\ writer[1] = <<"", "">>

----------------------------------------------------------------------------
(* Claims about the scalar encoders, checked under SpecScalar.             *)

\* The text a supported Map key is to be rendered to: "null" for a Null key,
\* the decimal text of the value for an integer key, true / false for a
\* boolean key and the string itself for a string key.
KeyText(key) ==
    CASE key.k = "Null" -> "null"
      [] key.k = "Bool" -> (IF key.b THEN "true" ELSE "false")
      [] key.k \in {"Byte", "Short", "Int", "Long", "UByte", "UShort", "UInt"} ->
            IntToStr(key.n)
      [] key.k = "ULong" -> DigitsToStr(key.u)
      [] key.k = "Str" -> key.s

\* A Map of one entry with a supported key has been mapped.
KeyedMapMapped ==
    /\ pc = "mapped"
    /\ m_field.k = "MapInternal"
    /\ supported_key(m_field.entries[1][1])

\* C11: the object mapped from a Map holds the entry under the text of its
\* key (null, the decimal text of an integer of any variant, true / false,
\* or the string itself), whatever the settings are.
C11_KeyRenderedAsItsText ==
    KeyedMapMapped =>
        /\ m_value.v.t = "Object"
        /\ Len(m_value.v.entries) = 1
        /\ m_value.v.entries[1][1] = KeyText(m_field.entries[1][1])
        /\ \A s \in ScalarSettings :
              element_to_value(s, m_field) = m_value.v

\* C11 without the 64-bit unsigned keys above 2^63 - 1 under convert_types:
\* every other key is rendered as its text under every setting.
C11_ExceptReinterpretedKeys ==
    (/\ KeyedMapMapped
     /\ ~(m_field.entries[1][1].k = "ULong" /\ BigLess(I64_MAX, m_field.entries[1][1].u))) =>
        /\ m_value.v.t = "Object"
        /\ Len(m_value.v.entries) = 1
        /\ m_value.v.entries[1][1] = KeyText(m_field.entries[1][1])
        /\ \A s \in ScalarSettings :
              element_to_value(s, m_field) = m_value.v

\* Re-parsing a decimal text: an optional sign, digits, one point, digits.
DecimalDigits == {Digit(d) : d \in 0..9}
CharValue(c) == CHOOSE d \in 0..9 : Digit(d) = c

RECURSIVE DigitsValue(_)
DigitsValue(cs) ==
    IF cs = <<>> THEN 0
    ELSE DigitsValue(SubSeq(cs, 1, Len(cs) - 1)) * 10 + CharValue(cs[Len(cs)])

Unsigned(cs) == IF cs # <<>> /\ cs[1] = "-" THEN Tail(cs) ELSE cs
PointAt(cs) == CHOOSE i \in DOMAIN cs : cs[i] = "."

\* A fixed-point text: after at most one leading sign, only digits and
\* exactly one point, with a digit before the point.
FixedPoint(cs) ==
    LET body == Unsigned(cs)
    IN /\ Cardinality({i \in DOMAIN body : body[i] = "."}) = 1
       /\ \A i \in DOMAIN body : body[i] \in DecimalDigits \cup {"."}
       /\ PointAt(body) > 1

ParsedScale(cs) == LET body == Unsigned(cs) IN Len(body) - PointAt(body)

ParsedUnscaled(cs) ==
    LET body == Unsigned(cs)
        NotPoint(c) == c # "."
        magnitude == DigitsValue(SelectSeq(body, NotPoint))
    IN IF cs[1] = "-" THEN 0 - magnitude ELSE magnitude

\* A Decimal that meets the assertion has been mapped.
DecimalMapped ==
    /\ pc = "mapped"
    /\ m_field.k = "Decimal"
    /\ decimal_assert(m_field)

\* C12: a Decimal with scale >= 0 and precision > scale is rendered as a
\* fixed-point text (at most one leading sign, no exponent) with exactly
\* `scale` digits after the point, and re-parsing the text gives back the
\* unscaled value and the scale.
C12_DecimalRoundTrip ==
    DecimalMapped =>
        LET text == decimal_to_string(m_field)
        IN /\ m_value.v = JStr(Join(text))
           /\ FixedPoint(text)
           /\ ParsedScale(text) = m_field.scale
           /\ ParsedUnscaled(text) = from_signed_bytes_be(m_field.data)

\* A negative value with fewer digits than the scale was rendered.
C12_Witness ==
    /\ DecimalMapped
    /\ m_field.data = <<255>> /\ m_field.scale = 3
    /\ m_value.v = JStr("-0.001")

\* The rendering of the millisecond value 0 in each mode.
ZeroRendering(rendering) ==
    CASE rendering = "Ticks" -> JNum(FALSE, FromChunks(<<621355968, 0>>))
      [] rendering = "IsoStr" -> JStr("1970-01-01T00:00:00.000000Z")
      [] rendering = "UnixMs" -> JNum(FALSE, <<0>>)

\* The 64-bit value of a timestamp field is negative as a signed integer.
NegativeInput(field) == BigLess(I64_MAX, field.ts)

\* The millisecond value of a non-negative timestamp field.
MillisOf(field) ==
    IF field.k = "TimestampMicros" THEN BigDiv(field.ts, 1000) ELSE field.ts

TimestampMapped ==
    /\ pc = "mapped"
    /\ m_field.k \in {"TimestampMillis", "TimestampMicros"}

\* C13: a TimestampMillis or TimestampMicros whose 64-bit value is negative
\* is rendered as the millisecond value 0 is in every mode; a non-negative
\* one is rendered from its millisecond value (a microsecond value divided
\* by 1000, truncating).
C13_NegativeClampedToZero ==
    TimestampMapped =>
        IF NegativeInput(m_field)
        THEN m_value.v = ZeroRendering(settings.timestamp_rendering)
        ELSE /\ m_value.v = element_to_value(settings, FTimestampMillis(MillisOf(m_field)))
             /\ settings.timestamp_rendering = "UnixMs" =>
                    m_value.v = JNum(FALSE, MillisOf(m_field))

\* C13 without the negative TimestampMicros values: it holds of every
\* TimestampMillis and of every non-negative TimestampMicros.
C13_ExceptNegativeMicros ==
    (TimestampMapped /\ ~(m_field.k = "TimestampMicros" /\ NegativeInput(m_field))) =>
        IF NegativeInput(m_field)
        THEN m_value.v = ZeroRendering(settings.timestamp_rendering)
        ELSE /\ m_value.v = element_to_value(settings, FTimestampMillis(MillisOf(m_field)))
             /\ settings.timestamp_rendering = "UnixMs" =>
                    m_value.v = JNum(FALSE, MillisOf(m_field))

\* The largest millisecond value whose ticks fit a signed 64-bit integer:
\* (2^63 - 1 - 621355968000000000) / 10000 = 860201606885477.
MaxTicksMillis == BigDiv(BigSub(I64_MAX, FromChunks(<<621355968, 0>>)), 10000)

\* ms * 10000 written out: four zeros after the digits of ms.
TimesTenThousand(ms) == Norm(ms \o <<0, 0, 0, 0>>)

\* A timestamp field with a non-negative value has been mapped to ticks.
TicksMapped ==
    /\ TimestampMapped
    /\ settings.timestamp_rendering = "Ticks"
    /\ ~NegativeInput(m_field)

\* C14: under Ticks a millisecond value ms >= 0 is rendered as the integer
\* ms * 10000 + 621355968000000000 when that fits a signed 64-bit integer,
\* and as Null (no wrapped number, no failure) when it does not.
C14_TicksOrNull ==
    TicksMapped =>
        LET ms == MillisOf(m_field)
        IN IF BigLeq(ms, MaxTicksMillis)
           THEN /\ m_value.v.t = "Number"
                /\ ~m_value.v.neg
                /\ BigLeq(m_value.v.mag, I64_MAX)
                /\ BigLeq(FromChunks(<<621355968, 0>>), m_value.v.mag)
                /\ BigSub(m_value.v.mag, FromChunks(<<621355968, 0>>)) = TimesTenThousand(ms)
           ELSE m_value.v = JNull

\* The first millisecond value whose ticks overflow was rendered as Null.
C14_Witness ==
    /\ TicksMapped
    /\ m_field = FTimestampMillis(FromChunks(<<860201, 606885478>>))
    /\ m_value.v = JNull

\* The last millisecond value whose ticks fit was rendered.
C14_WitnessFits ==
    /\ TicksMapped
    /\ m_field = FTimestampMillis(FromChunks(<<860201, 606885477>>))
    /\ to_string(m_value.v) = "9223372036854770000"

IntegerVariants == {"Byte", "Short", "Int", "Long", "UByte", "UShort", "UInt", "ULong"}

IntegerMapped ==
    /\ pc = "mapped"
    /\ m_field.k \in IntegerVariants

\* C15: a 64-bit unsigned value v is mapped to the integer v when
\* convert_types is not set and to its two's-complement signed
\* reinterpretation (v below 2^63, v - 2^64 from 2^63 on) when it is set; a
\* value of any other integer variant is mapped to itself under both values
\* of the setting.
C15_UnsignedLongReinterpreted ==
    IntegerMapped =>
        IF m_field.k = "ULong"
        THEN /\ m_value.v.t = "Number"
             /\ IF settings.convert_types /\ BigLeq(TWO_63, m_field.u)
                THEN /\ m_value.v.neg
                     /\ BigLeq(m_value.v.mag, TWO_63)
                     /\ BigAdd(m_value.v.mag, m_field.u) = TWO_64
                ELSE /\ ~m_value.v.neg
                     /\ m_value.v.mag = m_field.u
        ELSE /\ m_value.v = JInt(m_field.n)
             /\ \A s \in ScalarSettings : element_to_value(s, m_field) = JInt(m_field.n)

\* The largest 64-bit unsigned value was mapped to -1 under convert_types.
C15_Witness ==
    /\ IntegerMapped
    /\ settings.convert_types
    /\ m_field = FULong(U64_MAX)
    /\ to_string(m_value.v) = "-1"

\* The number a decimal text denotes, as digits (without leading or trailing
\* zeros) times a power of ten. The text is a sign, digits, an optional
\* fraction and an optional exponent.
IndexOf(cs, c) == IF \E i \in DOMAIN cs : cs[i] = c
                  THEN CHOOSE i \in DOMAIN cs : cs[i] = c
                  ELSE Len(cs) + 1

RECURSIVE StripLeadingZeros(_)
StripLeadingZeros(ds) ==
    IF ds # <<>> /\ Head(ds) = "0" THEN StripLeadingZeros(Tail(ds)) ELSE ds

SignedValue(cs) ==
    IF cs # <<>> /\ cs[1] = "-" THEN 0 - DigitsValue(Tail(cs)) ELSE DigitsValue(cs)

Denoted(cs) ==
    LET e == IndexOf(cs, "e")
        mantissa == Unsigned(SubSeq(cs, 1, e - 1))
        exponent == SignedValue(SubSeq(cs, e + 1, Len(cs)))
        p == IndexOf(mantissa, ".")
        fraction == SubSeq(mantissa, p + 1, Len(mantissa))
        all == SubSeq(mantissa, 1, p - 1) \o fraction
        digits == StripLeadingZeros(trim_end_matches(all, "0"))
        zeros == Len(all) - Len(trim_end_matches(all, "0"))
    IN IF digits = <<>> THEN [digits |-> <<>>, exp |-> 0, neg |-> FALSE]
       ELSE [digits |-> digits, exp |-> exponent - Len(fraction) + zeros,
             neg |-> cs[1] = "-"]

\* The cell of a finite Double has been written.
DoubleCellWritten ==
    /\ pc = "cell"
    /\ m_field.k = "Double"
    /\ m_field.cs # NaN

\* C16: the CSV cell of a finite floating number is its shortest text without
\* the trailing zeros of the fraction and without a trailing point, and
\* denotes the same number, in every form the shortest text takes (exponent
\* forms such as 1e20 and 1e-10 included).
C16_CellDenotesTheNumber ==
    DoubleCellWritten =>
        LET cell == truncate_trailing_zeros(m_field.cs)
        IN /\ m_line.v = Join(cell)
           /\ Denoted(cell) = Denoted(m_field.cs)

\* C16 on the texts without an exponent: the cell denotes the number.
C16_WithoutExponent ==
    (DoubleCellWritten /\ IndexOf(m_field.cs, "e") > Len(m_field.cs)) =>
        LET cell == truncate_trailing_zeros(m_field.cs)
        IN /\ m_line.v = Join(cell)
           /\ Denoted(cell) = Denoted(m_field.cs)
           /\ IndexOf(cell, ".") > Len(cell) \/ cell[Len(cell)] \notin {"0", "."}

----------------------------------------------------------------------------
(* Empty containers in the mapped value, checked under SpecMap.            *)

\* Every JSON value nested in `value`, at any depth, and `value` itself.
RECURSIVE SubValues(_)
SubValues(value) ==
    {value} \cup
    (CASE value.t = "Array" -> UNION {SubValues(value.items[i]) : i \in DOMAIN value.items}
       [] value.t = "Object" ->
            UNION {SubValues(value.entries[i][2]) : i \in DOMAIN value.entries}
       [] OTHER -> {})

EmptyObject(value) == value.t = "Object" /\ value.entries = <<>>
EmptyArray(value) == value.t = "Array" /\ value.items = <<>>

\* The fields held by a Group or a Map.
HeldFields(field) ==
    IF field.k = "Group" THEN {field.fields[i][2] : i \in DOMAIN field.fields}
    ELSE {field.entries[i][2] : i \in DOMAIN field.entries}

\* Every empty array of `value`, the value mapped from `field`, stands where a
\* zero-length ByteArray was rendered.
RECURSIVE EmptyArraysAreBytes(_, _, _)
EmptyArraysAreBytes(s, field, value) ==
    CASE value.t = "Array" ->
            IF value.items = <<>> THEN field.k = "Bytes" /\ field.bytes = <<>>
            ELSE field.k = "ListInternal" =>
                    \A i \in DOMAIN value.items :
                        EmptyArraysAreBytes(s, field.elements[i], value.items[i])
      [] value.t = "Object" ->
            \A i \in DOMAIN value.entries :
                \E child \in HeldFields(field) :
                    /\ element_to_value(s, child) = value.entries[i][2]
                    /\ EmptyArraysAreBytes(s, child, value.entries[i][2])
      [] OTHER -> TRUE

\* C17: with omit_empty_bags and omit_empty_lists both set, the mapped value
\* holds no empty object at any depth (the only empty object written is the
\* {} that stands for a Null record) and holds an empty array only where a
\* zero-length ByteArray was rendered, which is [] and not Null.
C17_NoEmptyContainers ==
    (/\ pc \in {"mapped", "written"}
     /\ settings.omit_empty_bags /\ settings.omit_empty_lists
     /\ m_value.v # Panic) =>
        /\ \A v \in SubValues(m_value.v) : ~EmptyObject(v)
        /\ EmptyArraysAreBytes(settings, m_field, m_value.v)
        /\ \A f \in SubFields(m_field) :
              (f.k = "Bytes" /\ f.bytes = <<>>) => EmptyArray(MappedOf(f))
        /\ pc = "written" => (m_line.v = "{}" <=> is_null(m_value.v))

\* A zero-length ByteArray nested in two Lists was mapped: it is [] and the
\* Lists around it are kept.
C17_Witness ==
    /\ pc = "mapped"
    /\ settings.omit_empty_bags /\ settings.omit_empty_lists
    /\ m_field = FList(<<FList(<<FBytes(<<>>)>>), FNull>>)
    /\ m_value = Some(JArr(<<JArr(<<JArr(<<>>)>>), JNull>>))

=============================================================================
